---- MODULE Spec2Model ----
\* Flow table operations of magma/pipelined/openflow/flows.py:
\* add_flow / get_add_flow_msg, delete_flow, delete_all_flows_from_table and
\* set_barrier, with the dispatch helper messages.send_msg, the channel and
\* the switch they talk to.
EXTENDS Integers, Sequences, FiniteSets, TLC

\* ---------------------------------------------------------------- bounds
MaxLen == 2        \* longest caller-supplied action list
MaxRetries == 1    \* largest explicit retries argument besides the default
MaxMsgs == 3       \* messages dispatched in one run of SpecOrder

\* ------------------------------------------------------ program constants
DEFAULT_PRIORITY == 10
MINIMUM_PRIORITY == 0
MAXIMUM_PRIORITY == 65535
DEFAULT_RETRIES == 3   \* retries=3 of add_flow, delete_flow, delete_all_flows_from_table

\* registers.SCRATCH_REGS and registers.REG_ZERO_VAL (imported, line 13)
SCRATCH_REGS == <<"R1", "R2", "R3">>
REG_ZERO_VAL == 0

\* retries used by messages.send_msg when the caller passes none
SEND_MSG_DEFAULT_RETRIES == 0

\* ------------------------------------------------------------ vocabulary
\* Python None / a present value
None == <<>>
Some(x) == <<x>>

\* parser.NXActionResubmitTable(table_id=t)
NXActionResubmitTable(t) ==
    [type |-> "NXActionResubmitTable", table_id |-> t, dst |-> "", value |-> 0]

\* parser.NXActionRegLoad2(dst=reg, value=v)
NXActionRegLoad2(reg, v) ==
    [type |-> "NXActionRegLoad2", table_id |-> 0, dst |-> reg, value |-> v]

\* any other action: passes through untouched
OtherAction(tag) ==
    [type |-> "Other", table_id |-> 0, dst |-> tag, value |-> 0]

\* parser.OFPInstructionActions(ofproto.OFPIT_APPLY_ACTIONS, actions)
OFPInstructionActions(actions) ==
    [type |-> "OFPIT_APPLY_ACTIONS", actions |-> actions]

\* an instruction handed in by the caller (opaque)
CallerInstruction ==
    [type |-> "OFPIT_GOTO_TABLE", actions |-> <<>>]

\* MagmaMatch(): the match with no field set
EmptyMatch == "match_all"

\* ------------------------------------------------------- pure functions
RECURSIVE SeqsUpTo(_, _)
SeqsUpTo(S, n) ==
    IF n = 0 THEN {<<>>}
    ELSE LET shorter == SeqsUpTo(S, n - 1)
         IN shorter \cup {Append(s, x) : s \in shorter, x \in S}

InScratchRegs(reg) == \E i \in 1..Len(SCRATCH_REGS) : SCRATCH_REGS[i] = reg

\* _check_resubmit_action: TRUE when it raises
check_resubmit_action_first_only(actions) ==
    Len(actions) > 0 /\ actions[1].type = "NXActionResubmitTable"

check_resubmit_action(actions) ==
    \E i \in 1..Len(actions) : actions[i].type = "NXActionResubmitTable"

\* _check_scratch_reg_load: TRUE when it raises
check_scratch_reg_load_first_reg(actions) ==
    \E i \in 1..Len(actions) :
        actions[i].type = "NXActionRegLoad2" /\ actions[i].dst = SCRATCH_REGS[1]

check_scratch_reg_load(actions) ==
    \E i \in 1..Len(actions) :
        actions[i].type = "NXActionRegLoad2" /\ InScratchRegs(actions[i].dst)

\* reset_scratch_reg_actions (lines 121-123)
reset_scratch_reg_actions ==
    [i \in 1..Len(SCRATCH_REGS) |-> NXActionRegLoad2(SCRATCH_REGS[i], REG_ZERO_VAL)]

\* the resubmit_next_service branch (lines 118-124)
next_service_actions_reset_first(actions, next) ==
    actions \o reset_scratch_reg_actions \o <<NXActionResubmitTable(next)>>

next_service_actions(actions, next) ==
    (actions \o <<NXActionResubmitTable(next)>>) \o reset_scratch_reg_actions

\* the resubmit_current_service branch (lines 126-128)
current_service_actions_with_reset(actions, current) ==
    (actions \o <<NXActionResubmitTable(current)>>) \o reset_scratch_reg_actions

current_service_actions(actions, current) ==
    actions \o <<NXActionResubmitTable(current)>>

\* __get_instructions_for_actions; actions and instructions are None or Some(list)
get_instructions_for_actions_prefer_instructions(actions, instructions) ==
    IF instructions # None /\ Len(instructions[1]) > 0
    THEN instructions[1]
    ELSE IF actions # None /\ Len(actions[1]) > 0
         THEN <<OFPInstructionActions(actions[1])>>
         ELSE <<>>

get_instructions_for_actions(actions, instructions) ==
    IF actions # None /\ Len(actions[1]) > 0
    THEN <<OFPInstructionActions(actions[1])>>
    ELSE IF instructions # None THEN instructions[1] ELSE <<>>

\* the message sent when nothing was compiled
NoMsg ==
    [command |-> "none", table_id |-> 0, match |-> EmptyMatch,
     instructions |-> <<>>, priority |-> 0, cookie |-> 0,
     idle_timeout |-> 0, hard_timeout |-> 0,
     out_group |-> "unset", out_port |-> "unset"]

Raise(e) == [err |-> e, msg |-> NoMsg]
Compiled(m) == [err |-> "none", msg |-> m]

\* get_add_flow_msg: c carries the keyword arguments of the call
get_add_flow_msg(c) ==
    LET actions == IF c.actions = None THEN <<>> ELSE c.actions[1]
        FlowMod(acts) ==
            [command |-> "OFPFC_ADD", table_id |-> c.table, match |-> c.match,
             instructions |-> get_instructions_for_actions(Some(acts), c.instructions),
             priority |-> c.priority, cookie |-> c.cookie,
             idle_timeout |-> c.idle_timeout, hard_timeout |-> c.hard_timeout,
             out_group |-> "unset", out_port |-> "unset"]
    IN  IF check_resubmit_action(actions)
        THEN Raise("RawResubmitNotAllowed")
        ELSE IF c.resubmit_next_service # None
        THEN IF check_scratch_reg_load(actions)
             THEN Raise("ScratchRegisterConflict")
             ELSE Compiled(FlowMod(next_service_actions(actions, c.resubmit_next_service[1])))
        ELSE IF c.resubmit_current_service # None
        THEN Compiled(FlowMod(current_service_actions(actions, c.resubmit_current_service[1])))
        ELSE Compiled(FlowMod(actions))

\* the OFPFlowMod built by delete_flow (lines 175-184); kwargs carries cookie
delete_flow_msg_prefers_instructions(c) ==
    [command |-> "OFPFC_DELETE", table_id |-> c.table, match |-> c.match,
     instructions |->
         get_instructions_for_actions_prefer_instructions(c.actions, c.instructions),
     priority |-> 0 - 1, cookie |-> c.cookie,
     idle_timeout |-> 0, hard_timeout |-> 0,
     out_group |-> "OFPG_ANY", out_port |-> "OFPP_ANY"]

delete_flow_msg(c) ==
    [command |-> "OFPFC_DELETE", table_id |-> c.table, match |-> c.match,
     instructions |-> get_instructions_for_actions(c.actions, c.instructions),
     priority |-> 0 - 1, cookie |-> c.cookie,
     idle_timeout |-> 0, hard_timeout |-> 0,
     out_group |-> "OFPG_ANY", out_port |-> "OFPP_ANY"]

\* parser.OFPBarrierRequest(datapath)
OFPBarrierRequest ==
    [command |-> "OFPT_BARRIER_REQUEST", table_id |-> 0, match |-> EmptyMatch,
     instructions |-> <<>>, priority |-> 0 - 1, cookie |-> 0,
     idle_timeout |-> 0, hard_timeout |-> 0,
     out_group |-> "unset", out_port |-> "unset"]

\* ------------------------------------------------------------------ state
VARIABLES
    pc,        \* "idle": no call in progress; "send": inside messages.send_msg;
               \* "done": the call has returned or raised
    call,      \* the operation in progress and its arguments
    mod,       \* the message handed to messages.send_msg
    budget,    \* the retries value messages.send_msg was called with
    outcomes,  \* the channel's answer to each send attempt of this call
    result,    \* what the call returned or raised
    chan,      \* messages accepted by the channel, in FIFO order
    applied,   \* messages the switch has applied, in order
    sent,      \* number of messages the channel has accepted
    acks       \* values of sent at which a set_barrier returned normally

callerVars == <<pc, call, mod, budget, outcomes, result>>
netVars == <<chan, applied, sent, acks>>
vars == <<pc, call, mod, budget, outcomes, result, chan, applied, sent, acks>>

NoCall ==
    [op |-> "none", table |-> 0, match |-> EmptyMatch, actions |-> None,
     instructions |-> None, priority |-> 0, cookie |-> 0, idle_timeout |-> 0,
     hard_timeout |-> 0, retries |-> 0,
     resubmit_next_service |-> None, resubmit_current_service |-> None]

Init ==
    /\ pc = "idle"
    /\ call = NoCall
    /\ mod = NoMsg
    /\ budget = 0
    /\ outcomes = <<>>
    /\ result = "none"
    /\ chan = <<>>
    /\ applied = <<>>
    /\ sent = 0
    /\ acks = {}

\* ----------------------------------------------------------------- inputs
Tables == {1, 2}
Matches == {EmptyMatch, "m1"}
NextTables == {5}
CurrentTables == {3}

ActionVocabulary ==
    {OtherAction("A"), NXActionResubmitTable(5),
     NXActionRegLoad2("R2", 7), NXActionRegLoad2("R3", 0),
     NXActionRegLoad2("R9", 7)}

ActionArgs == {None} \cup {Some(l) : l \in SeqsUpTo(ActionVocabulary, MaxLen)}
InstructionArgs == {None, Some(<<>>), Some(<<CallerInstruction>>)}
RetriesArgs == (0..MaxRetries) \cup {DEFAULT_RETRIES}

\* priority, cookie, idle_timeout, hard_timeout: forwarded unchanged
Metadata ==
    {<<p, k, t[1], t[2]>> :
        p \in {MINIMUM_PRIORITY, DEFAULT_PRIORITY, MAXIMUM_PRIORITY},
        k \in {0, 1}, t \in {<<0, 0>>, <<30, 60>>}}

AddCall(table, match, actions, instructions, meta, retries, next, current) ==
    [op |-> "add_flow", table |-> table, match |-> match, actions |-> actions,
     instructions |-> instructions, priority |-> meta[1], cookie |-> meta[2],
     idle_timeout |-> meta[3], hard_timeout |-> meta[4], retries |-> retries,
     resubmit_next_service |-> next, resubmit_current_service |-> current]

DeleteCall(op, table, match, actions, instructions, retries, cookie) ==
    [op |-> op, table |-> table, match |-> match, actions |-> actions,
     instructions |-> instructions, priority |-> 0, cookie |-> cookie,
     idle_timeout |-> 0, hard_timeout |-> 0, retries |-> retries,
     resubmit_next_service |-> None, resubmit_current_service |-> None]

AddCalls ==
    {AddCall(t, m, a, i, md, r, n, c) :
        t \in Tables, m \in Matches, a \in ActionArgs, i \in InstructionArgs,
        md \in Metadata, r \in RetriesArgs,
        n \in {None} \cup {Some(x) : x \in NextTables},
        c \in {None} \cup {Some(x) : x \in CurrentTables}}

DeleteCalls ==
    {DeleteCall("delete_flow", t, m, a, i, r, k) :
        t \in Tables, m \in Matches, a \in ActionArgs, i \in InstructionArgs,
        r \in RetriesArgs, k \in {0, 1}}

\* the calls made in SpecOrder
OrderAddCalls ==
    {AddCall(t, "m1", Some(<<OtherAction("A")>>), None,
             <<MINIMUM_PRIORITY, 0, 0, 0>>, r, None, None) :
        t \in Tables, r \in {0, 1}}

\* ---------------------------------------------------------------- actions
\* add_flow (lines 61-68): an exception of get_add_flow_msg leaves the function
\* before messages.send_msg is reached
add_flow_dispatches_anyway(c) ==
    /\ pc = "idle"
    /\ call' = c
    /\ pc' = "send"
    /\ result' = "pending"
    /\ mod' = get_add_flow_msg(c).msg
    /\ budget' = c.retries
    /\ outcomes' = <<>>
    /\ UNCHANGED netVars

add_flow_drops_retries(c) ==
    /\ pc = "idle"
    /\ call' = c
    /\ LET r == get_add_flow_msg(c)
       IN  IF r.err # "none"
           THEN pc' = "done" /\ result' = r.err /\ mod' = NoMsg /\ budget' = 0
           ELSE pc' = "send" /\ result' = "pending" /\ mod' = r.msg
                /\ budget' = SEND_MSG_DEFAULT_RETRIES
    /\ outcomes' = <<>>
    /\ UNCHANGED netVars

add_flow(c) ==
    /\ pc = "idle"
    /\ call' = c
    /\ LET r == get_add_flow_msg(c)
       IN  IF r.err # "none"
           THEN pc' = "done" /\ result' = r.err /\ mod' = NoMsg /\ budget' = 0
           ELSE pc' = "send" /\ result' = "pending" /\ mod' = r.msg
                /\ budget' = c.retries
    /\ outcomes' = <<>>
    /\ UNCHANGED netVars

\* delete_flow (lines 175-186)
delete_flow(c) ==
    /\ pc = "idle"
    /\ call' = c
    /\ pc' = "send"
    /\ result' = "pending"
    /\ mod' = delete_flow_msg(c)
    /\ budget' = c.retries
    /\ outcomes' = <<>>
    /\ UNCHANGED netVars

\* delete_all_flows_from_table (lines 201-202)
delete_all_flows_from_table(table, retries) ==
    delete_flow(DeleteCall("delete_all_flows_from_table", table, EmptyMatch,
                           None, None, retries, 0))

\* set_barrier (lines 152-153): messages.send_msg is called without retries
set_barrier_with_retries ==
    /\ pc = "idle"
    /\ call' = [NoCall EXCEPT !.op = "set_barrier"]
    /\ pc' = "send"
    /\ result' = "pending"
    /\ mod' = OFPBarrierRequest
    /\ budget' = DEFAULT_RETRIES
    /\ outcomes' = <<>>
    /\ UNCHANGED netVars

set_barrier_without_send ==
    /\ pc = "idle"
    /\ call' = [NoCall EXCEPT !.op = "set_barrier"]
    /\ pc' = "done"
    /\ result' = "ok"
    /\ mod' = OFPBarrierRequest
    /\ budget' = SEND_MSG_DEFAULT_RETRIES
    /\ outcomes' = <<>>
    /\ UNCHANGED netVars

set_barrier ==
    /\ pc = "idle"
    /\ call' = [NoCall EXCEPT !.op = "set_barrier"]
    /\ pc' = "send"
    /\ result' = "pending"
    /\ mod' = OFPBarrierRequest
    /\ budget' = SEND_MSG_DEFAULT_RETRIES
    /\ outcomes' = <<>>
    /\ UNCHANGED netVars

\* messages.send_msg, one attempt the channel refuses: retried while fewer
\* than budget + 1 attempts were made, then the error is raised
send_msg_attempt_fails ==
    /\ pc = "send"
    /\ outcomes' = Append(outcomes, FALSE)
    /\ IF Len(outcomes) + 1 > budget
       THEN pc' = "done" /\ result' = "DispatchError"
       ELSE UNCHANGED <<pc, result>>
    /\ UNCHANGED <<call, mod, budget>>

\* messages.send_msg, one attempt the channel accepts
send_msg_attempt_succeeds ==
    /\ pc = "send"
    /\ outcomes' = Append(outcomes, TRUE)
    /\ pc' = "done"
    /\ result' = "ok"
    /\ UNCHANGED <<call, mod, budget>>

\* the caller takes the result (or the exception) and is free to call again
caller_continues ==
    /\ pc = "done"
    /\ pc' = "idle"
    /\ call' = NoCall
    /\ mod' = NoMsg
    /\ budget' = 0
    /\ outcomes' = <<>>
    /\ result' = "none"

\* --------------------------------------- Spec: one operation at a time
\* (a call starts only when no call is in progress: the guard of every
\* operation, stated first so that the arguments are drawn only then)
AddFlow == pc = "idle" /\ \E c \in AddCalls : add_flow(c)
DeleteFlow == pc = "idle" /\ \E c \in DeleteCalls : delete_flow(c)
DeleteAllFlowsFromTable ==
    pc = "idle" /\ \E t \in Tables, r \in RetriesArgs : delete_all_flows_from_table(t, r)
SetBarrier == set_barrier
SendFails == send_msg_attempt_fails /\ UNCHANGED netVars
SendSucceeds == send_msg_attempt_succeeds /\ UNCHANGED netVars
CallerContinues == caller_continues /\ UNCHANGED netVars

Next ==
    \/ AddFlow
    \/ DeleteFlow
    \/ DeleteAllFlowsFromTable
    \/ SetBarrier
    \/ SendFails
    \/ SendSucceeds
    \/ CallerContinues

Spec == Init /\ [][Next]_vars

\* ------------------- SpecOrder: the FIFO channel and the switch behind it
OrderAddFlow == pc = "idle" /\ sent < MaxMsgs /\ \E c \in OrderAddCalls : add_flow(c)
OrderDeleteAll == sent < MaxMsgs /\ delete_all_flows_from_table(1, 0)
OrderSetBarrier == sent < MaxMsgs /\ set_barrier
OrderSendFails == send_msg_attempt_fails /\ UNCHANGED netVars

\* an accepted message joins the channel's queue behind the earlier ones
OrderSendSucceeds ==
    /\ send_msg_attempt_succeeds
    /\ sent' = sent + 1
    /\ chan' = Append(chan, [seq |-> sent + 1, msg |-> mod])
    /\ UNCHANGED <<applied, acks>>

\* the caller sees set_barrier return normally: the barrier is acknowledged
OrderCallerContinues ==
    /\ caller_continues
    /\ acks' = IF call.op = "set_barrier" /\ result = "ok"
               THEN acks \cup {sent} ELSE acks
    /\ UNCHANGED <<chan, applied, sent>>

IsBarrier(m) == m.msg.command = "OFPT_BARRIER_REQUEST"

\* the switch applies a queued message. Messages not separated by a barrier
\* may be applied in any order; a barrier is processed only when everything
\* queued before it has been applied, and nothing queued after it overtakes it
switch_applies(i) ==
    /\ i \in 1..Len(chan)
    /\ \A j \in 1..(i - 1) : ~IsBarrier(chan[j])
    /\ IsBarrier(chan[i]) => i = 1
    /\ applied' = Append(applied, chan[i])
    /\ chan' = [j \in 1..(Len(chan) - 1) |-> IF j < i THEN chan[j] ELSE chan[j + 1]]
    /\ UNCHANGED <<sent, acks>>
    /\ UNCHANGED callerVars

SwitchApplies == \E i \in 1..MaxMsgs : switch_applies(i)

NextOrder ==
    \/ OrderAddFlow
    \/ OrderDeleteAll
    \/ OrderSetBarrier
    \/ OrderSendFails
    \/ OrderSendSucceeds
    \/ OrderCallerContinues
    \/ SwitchApplies

SpecOrder == Init /\ [][NextOrder]_vars

\* ------------------------------------------------------------ properties
\* what the properties read off a call
Actions == IF call.actions = None THEN <<>> ELSE call.actions[1]
HasRawResubmit == \E i \in 1..Len(Actions) : Actions[i].type = "NXActionResubmitTable"
ScratchRegisterSet == {SCRATCH_REGS[i] : i \in 1..Len(SCRATCH_REGS)}
HasScratchLoad ==
    \E i \in 1..Len(Actions) :
        Actions[i].type = "NXActionRegLoad2" /\ Actions[i].dst \in ScratchRegisterSet
HasOtherRegLoad ==
    \E i \in 1..Len(Actions) :
        Actions[i].type = "NXActionRegLoad2" /\ Actions[i].dst \notin ScratchRegisterSet
InAdd == pc # "idle" /\ call.op = "add_flow"
InDelete == pc # "idle" /\ call.op \in {"delete_flow", "delete_all_flows_from_table"}
InBarrier == pc # "idle" /\ call.op = "set_barrier"
CompileErrors == {"RawResubmitNotAllowed", "ScratchRegisterConflict"}
ForwardNext == call.resubmit_next_service # None
ForwardCurrent ==
    call.resubmit_next_service = None /\ call.resubmit_current_service # None
AllFailed == \A i \in 1..Len(outcomes) : ~outcomes[i]
\* the action sequence of the single apply-actions instruction of mod
IsApplyActions == Len(mod.instructions) = 1 /\ mod.instructions[1].type = "OFPIT_APPLY_ACTIONS"
Applied == mod.instructions[1].actions

\* C1: an add whose action list holds a raw resubmit at any position fails
\* with RawResubmitNotAllowed and produces no message, whatever the forwarding,
\* instructions, priority, cookie and timeouts are.
C1_RawResubmitRejected ==
    (InAdd /\ HasRawResubmit) =>
        /\ pc = "done"
        /\ result = "RawResubmitNotAllowed"
        /\ mod = NoMsg

C1_Witness ==
    /\ InAdd /\ pc = "done" /\ result = "RawResubmitNotAllowed"
    /\ Len(Actions) = 2 /\ Actions[1].type = "Other"
    /\ Actions[2].type = "NXActionResubmitTable"
    /\ ForwardNext /\ call.instructions # None /\ call.priority = MAXIMUM_PRIORITY

\* C2 as stated: with a next-service forward, every action list that holds a
\* load of a scratch register fails with ScratchRegisterConflict.
C2_Original ==
    (InAdd /\ ForwardNext /\ HasScratchLoad) =>
        (pc = "done" /\ result = "ScratchRegisterConflict")

\* C2 amended: with a next-service forward and no raw resubmit in the list, a
\* load of a scratch register fails the add with ScratchRegisterConflict; a
\* list whose register loads all target registers outside the set never
\* fails with ScratchRegisterConflict.
C2_ScratchLoadRejected ==
    /\ (InAdd /\ ForwardNext /\ HasScratchLoad /\ ~HasRawResubmit) =>
           (pc = "done" /\ result = "ScratchRegisterConflict" /\ mod = NoMsg)
    /\ (InAdd /\ ForwardNext /\ ~HasScratchLoad) =>
           result # "ScratchRegisterConflict"

C2_Witness ==
    /\ InAdd /\ ForwardNext /\ pc = "done" /\ result = "ScratchRegisterConflict"
    /\ Len(Actions) = 2 /\ Actions[1].type = "Other"
    /\ Actions[2] = NXActionRegLoad2("R2", 7)

C4_CurrentServiceSequence ==
    (InAdd /\ ForwardCurrent /\ ~HasRawResubmit) =>
        /\ result \notin CompileErrors
        /\ IsApplyActions
        /\ Applied = Actions \o <<NXActionResubmitTable(call.resubmit_current_service[1])>>

C4_Witness ==
    /\ InAdd /\ ForwardCurrent /\ pc = "done" /\ result = "ok"
    /\ HasScratchLoad
    /\ Len(Applied) = Len(Actions) + 1

\* C5: an add with retries = r whose message compiled: while every attempt has
\* failed and at most r were made the call is still sending; it ends with
\* DispatchError exactly when r + 1 attempts have all failed, and it ends
\* without error as soon as one attempt, the (r + 1)-th at the latest, succeeds.
C5_RetryBudget ==
    (InAdd /\ get_add_flow_msg(call).err = "none") =>
        /\ Len(outcomes) <= call.retries + 1
        /\ pc = "send" => (AllFailed /\ Len(outcomes) <= call.retries
                           /\ result = "pending")
        /\ (pc = "done" /\ AllFailed) =>
               (Len(outcomes) = call.retries + 1 /\ result = "DispatchError")
        /\ (pc = "done" /\ ~AllFailed) =>
               /\ result = "ok"
               /\ outcomes[Len(outcomes)]
               /\ \A i \in 1..(Len(outcomes) - 1) : ~outcomes[i]

C5_Witness ==
    /\ InAdd /\ pc = "done" /\ result = "ok"
    /\ call.retries = DEFAULT_RETRIES
    /\ outcomes = <<FALSE, FALSE, FALSE, TRUE>>

\* C6: an add whose compilation fails ends with that error and makes no send
\* attempt, for every value of retries.
C6_CompileErrorNotDispatched ==
    (InAdd /\ (HasRawResubmit \/ (ForwardNext /\ HasScratchLoad))) =>
        /\ pc = "done"
        /\ result \in CompileErrors
        /\ outcomes = <<>>
        /\ mod = NoMsg

C6_Witness ==
    /\ InAdd /\ pc = "done" /\ result = "ScratchRegisterConflict"
    /\ call.retries = DEFAULT_RETRIES /\ outcomes = <<>>

C8_BarrierOrdering ==
    \A j \in 1..Len(applied) :
        applied[j].msg.command = "OFPFC_ADD" =>
            \A k \in acks :
                k < applied[j].seq =>
                    \A s \in 1..k : \E i \in 1..(j - 1) : applied[i].seq = s

C8_Witness ==
    /\ 2 \in acks
    /\ Len(applied) = 3
    /\ applied[1].msg.command = "OFPFC_ADD"
    /\ IsBarrier(applied[2])
    /\ applied[3].msg.command = "OFPFC_ADD" /\ applied[3].seq = 3

\* the add call with the arguments of the delete in progress and no forwarding
AsAdd == [call EXCEPT !.op = "add_flow"]

C10_InstructionsFromActions ==
    (InAdd /\ result \notin CompileErrors) =>
        IF Len(Actions) > 0 \/ ForwardNext \/ ForwardCurrent
        THEN /\ IsApplyActions
             /\ Len(Applied) > Len(Actions) \/ Applied = Actions
             /\ SubSeq(Applied, 1, Len(Actions)) = Actions
             /\ (ForwardNext \/ ForwardCurrent) =>
                    Applied[Len(Actions) + 1].type = "NXActionResubmitTable"
        ELSE mod.instructions =
                 (IF call.instructions = None THEN <<>> ELSE call.instructions[1])

C10_Witness ==
    /\ InAdd /\ pc = "done" /\ result = "ok"
    /\ Actions = <<>> /\ ForwardCurrent
    /\ call.instructions = Some(<<CallerInstruction>>)
    /\ IsApplyActions

====
